---- MODULE Spec2Model ----
(***************************************************************************)
(* A model of extractor.py: the WaybackExtractor class (construction,      *)
(* extract, _calculate_stats, _categorize_mime, print_stats, the three     *)
(* exporters and export) and the two entry points (main and the            *)
(* interactive block).                                                     *)
(*                                                                         *)
(* Text is modelled as a sequence of one-character strings, so that        *)
(* lower(), "in", endswith(), replace(), strip(), the csv writer and the   *)
(* json encoder are computed character by character.  An optional value    *)
(* (Python's None or a value) is a sequence of length 0 or 1.              *)
(***************************************************************************)
EXTENDS Integers, Sequences, FiniteSets, TLC

VARIABLES
    pc,       \* position of the top-level flow (entry points); "object" when no flow runs
    mode,     \* "cli" (main), "interactive" (the __main__ block) or "object"
    args,     \* the parsed command line / the interactive answers
    domain,   \* WaybackExtractor.domain, NONE before construction
    urls,     \* WaybackExtractor.urls: the held rows
    stats,    \* WaybackExtractor.stats: total, unique, by_type, by_status
    params,   \* the query parameters of the last GET issued, NONE before
    gets,     \* number of HTTP GETs sent to the CDX API, redirects followed included
    response, \* what the last GET met: NONE before, else <<[raises, data]>>
    result,   \* what the last method call returned, NONE when it raised or never ran
    raised,   \* the exception that left the last method call, NONE when it returned
    stdout,   \* the messages printed so far (one tag per message group)
    file      \* the output file written last: NONE or <<[name, content]>>

vars == <<pc, mode, args, domain, urls, stats, params, gets, response, result, raised, stdout, file>>

(***************************************************************************)
(* Optional values and text helpers.                                       *)
(***************************************************************************)
NONE == << >>
Some(v) == <<v>>
Val(o) == o[1]

\* Python truthiness of an optional text or an optional integer.
TruthyText(o) == o # NONE /\ Val(o) # << >>
TruthyInt(o) == o # NONE /\ Val(o) # 0

UpperChars == <<"A","B","C","D","E","F","G","H","I","J","K","L","M",
                "N","O","P","Q","R","S","T","U","V","W","X","Y","Z">>
LowerChars == <<"a","b","c","d","e","f","g","h","i","j","k","l","m",
                "n","o","p","q","r","s","t","u","v","w","x","y","z">>

LowerChar(c) ==
    IF \E i \in 1..Len(UpperChars) : UpperChars[i] = c
    THEN LowerChars[CHOOSE i \in 1..Len(UpperChars) : UpperChars[i] = c]
    ELSE c

\* str.lower()
Lower(s) == [i \in 1..Len(s) |-> LowerChar(s[i])]

\* sub in s
Contains(sub, s) ==
    \E i \in 1..(Len(s) - Len(sub) + 1) : SubSeq(s, i, i + Len(sub) - 1) = sub

\* s.endswith(suf)
EndsWith(s, suf) ==
    /\ Len(suf) <= Len(s)
    /\ SubSeq(s, Len(s) - Len(suf) + 1, Len(s)) = suf

StartsWith(s, pre) ==
    /\ Len(pre) <= Len(s)
    /\ SubSeq(s, 1, Len(pre)) = pre

\* s.replace(old, new): leftmost non-overlapping occurrences, old non-empty
RECURSIVE Replace(_, _, _)
Replace(s, old, new) ==
    IF s = << >> THEN << >>
    ELSE IF StartsWith(s, old)
         THEN new \o Replace(SubSeq(s, Len(old) + 1, Len(s)), old, new)
         ELSE <<Head(s)>> \o Replace(Tail(s), old, new)

\* s.strip(chars)
RECURSIVE LStrip(_, _)
LStrip(s, chars) ==
    IF s # << >> /\ Head(s) \in chars THEN LStrip(Tail(s), chars) ELSE s

RECURSIVE RStrip(_, _)
RStrip(s, chars) ==
    IF s # << >> /\ s[Len(s)] \in chars
    THEN RStrip(SubSeq(s, 1, Len(s) - 1), chars) ELSE s

Strip(s, chars) == RStrip(LStrip(s, chars), chars)

\* The ASCII control characters: ControlChars[k] is the character of code k.
ControlChars == <<"","","","","","","","","\t","\n","","\f","\r","","","","","","","","","","","","","","","","","","">>
\* The character of code 127.
DEL == ""

\* The ASCII characters str.strip() removes: space, \t \n \x0b \x0c \r and
\* \x1c-\x1f (strip also removes the Unicode spaces, which a text of this
\* module cannot hold).
Whitespace == {" "} \cup {ControlChars[k] : k \in {9, 10, 11, 12, 13, 28, 29, 30, 31}}

Digits == <<"0","1","2","3","4","5","6","7","8","9">>

\* str(n) for an integer n
RECURSIVE NatToStr(_)
NatToStr(n) ==
    IF n < 10 THEN <<Digits[n + 1]>>
    ELSE NatToStr(n \div 10) \o <<Digits[(n % 10) + 1]>>

IntToStr(n) == IF n < 0 THEN <<"-">> \o NatToStr(0 - n) ELSE NatToStr(n)

RECURSIVE Concat(_)
Concat(ss) == IF ss = << >> THEN << >> ELSE Head(ss) \o Concat(Tail(ss))

(***************************************************************************)
(* The text literals of the source.                                        *)
(***************************************************************************)
T_http == <<"h","t","t","p",":","/","/">>
T_https == <<"h","t","t","p","s",":","/","/">>
T_slash_star == <<"/","*">>
T_dot == <<".">>
T_underscore == <<"_">>
T_json == <<"j","s","o","n">>
T_fl == <<"o","r","i","g","i","n","a","l",",","t","i","m","e","s","t","a","m","p",",","s","t","a","t","u","s","c","o","d","e",",","m","i","m","e","t","y","p","e">>
T_urlkey == <<"u","r","l","k","e","y">>
T_original_re == <<"o","r","i","g","i","n","a","l",":",".","*">>
T_statuscode == <<"s","t","a","t","u","s","c","o","d","e",":">>
T_unknown == <<"u","n","k","n","o","w","n">>
T_html == <<"h","t","m","l">>
T_image == <<"i","m","a","g","e">>
T_css == <<"c","s","s">>
T_javascript == <<"j","a","v","a","s","c","r","i","p","t">>
T_pdf == <<"p","d","f">>
T_video == <<"v","i","d","e","o">>
T_dot_jpg == <<".","j","p","g">>
T_dot_jpeg == <<".","j","p","e","g">>
T_dot_png == <<".","p","n","g">>
T_dot_gif == <<".","g","i","f">>
T_dot_webp == <<".","w","e","b","p">>
T_dot_svg == <<".","s","v","g">>
T_dot_css == <<".","c","s","s">>
T_dot_js == <<".","j","s">>
T_dot_pdf == <<".","p","d","f">>
T_urls_csv == <<"_","u","r","l","s",".","c","s","v">>
T_urls_json == <<"_","u","r","l","s",".","j","s","o","n">>
T_urls_txt == <<"_","u","r","l","s",".","t","x","t">>
T_url == <<"u","r","l">>
T_timestamp == <<"t","i","m","e","s","t","a","m","p">>
T_status_code == <<"s","t","a","t","u","s","_","c","o","d","e">>
T_mime_type == <<"m","i","m","e","_","t","y","p","e">>
T_domain == <<"d","o","m","a","i","n">>
T_extracted_at == <<"e","x","t","r","a","c","t","e","d","_","a","t">>
T_stats == <<"s","t","a","t","s">>
T_total_urls == <<"t","o","t","a","l","_","u","r","l","s">>
T_unique_urls == <<"u","n","i","q","u","e","_","u","r","l","s">>
T_urls == <<"u","r","l","s">>
T_null == <<"n","u","l","l">>

(***************************************************************************)
(* class WaybackExtractor                                                  *)
(***************************************************************************)
FREE_LIMIT == 50000

EmptyCounter == [k \in {} |-> 0]

\* Counter[k] += 1
CounterInc(c, k) ==
    [x \in DOMAIN c \cup {k} |->
        IF x = k THEN (IF k \in DOMAIN c THEN c[k] + 1 ELSE 1) ELSE c[x]]

\* __init__: the domain without scheme and surrounding slashes
NormalizeDomain(d) == Strip(Replace(Replace(d, T_http, << >>), T_https, << >>), {"/"})

InitStats == [total |-> 0, unique |-> 0, by_type |-> EmptyCounter, by_status |-> EmptyCounter]

\* The mutant of categorize_mime: the "json" test is missing.
categorize_mime_without_json(mime, url) ==
    IF Contains(T_html, Lower(mime)) THEN "HTML"
    ELSE IF Contains(T_image, Lower(mime)) THEN "Image"
    ELSE IF Contains(T_css, Lower(mime)) THEN "CSS"
    ELSE IF Contains(T_javascript, Lower(mime)) THEN "JavaScript"
    ELSE IF Contains(T_pdf, Lower(mime)) THEN "PDF"
    ELSE IF Contains(T_video, Lower(mime)) THEN "Video"
    ELSE IF \E suf \in {T_dot_jpg, T_dot_jpeg, T_dot_png, T_dot_gif, T_dot_webp, T_dot_svg} :
                EndsWith(url, suf) THEN "Image"
    ELSE IF EndsWith(url, T_dot_css) THEN "CSS"
    ELSE IF EndsWith(url, T_dot_js) THEN "JavaScript"
    ELSE IF EndsWith(url, T_dot_pdf) THEN "PDF"
    ELSE "Other"

\* _categorize_mime(mime, url)
categorize_mime(mime, url) ==
    IF Contains(T_html, Lower(mime)) THEN "HTML"
    ELSE IF Contains(T_image, Lower(mime)) THEN "Image"
    ELSE IF Contains(T_css, Lower(mime)) THEN "CSS"
    ELSE IF Contains(T_javascript, Lower(mime)) \/ Contains(T_json, Lower(mime)) THEN "JavaScript"
    ELSE IF Contains(T_pdf, Lower(mime)) THEN "PDF"
    ELSE IF Contains(T_video, Lower(mime)) THEN "Video"
    ELSE IF \E suf \in {T_dot_jpg, T_dot_jpeg, T_dot_png, T_dot_gif, T_dot_webp, T_dot_svg} :
                EndsWith(url, suf) THEN "Image"
    ELSE IF EndsWith(url, T_dot_css) THEN "CSS"
    ELSE IF EndsWith(url, T_dot_js) THEN "JavaScript"
    ELSE IF EndsWith(url, T_dot_pdf) THEN "PDF"
    ELSE "Other"

\* The fields _calculate_stats reads from one row.
ItemUrl(item) == item[1]
ItemStatus(item) == IF Len(item) > 2 THEN item[3] ELSE T_unknown
ItemMime(item) == IF Len(item) > 3 THEN item[4] ELSE T_unknown

\* The mutant of CountStatus: a row without a status code is not counted.
RECURSIVE CountStatusGiven(_, _, _)
CountStatusGiven(rows, n, c) ==
    IF n = 0 THEN c
    ELSE IF Len(rows[n]) > 2
         THEN CounterInc(CountStatusGiven(rows, n - 1, c), rows[n][3])
         ELSE CountStatusGiven(rows, n - 1, c)

\* The loop of _calculate_stats over the first n rows: both counters are
\* incremented in place, starting from what they already hold.
RECURSIVE CountStatus(_, _, _)
CountStatus(rows, n, c) ==
    IF n = 0 THEN c
    ELSE CounterInc(CountStatus(rows, n - 1, c), ItemStatus(rows[n]))

RECURSIVE CountType(_, _, _)
CountType(rows, n, c) ==
    IF n = 0 THEN c
    ELSE CounterInc(CountType(rows, n - 1, c),
                    categorize_mime(ItemMime(rows[n]), ItemUrl(rows[n])))

\* _calculate_stats: the stats after the call, from the held rows and the stats before
calculate_stats(rows, st) ==
    [total     |-> Len(rows),
     unique    |-> Cardinality({ItemUrl(rows[i]) : i \in 1..Len(rows)}),
     by_type   |-> CountType(rows, Len(rows), st.by_type),
     by_status |-> CountStatus(rows, Len(rows), st.by_status)]

\* `dict[k] = v`
SetItem(d, k, v) == [x \in DOMAIN d \cup {k} |-> IF x = k THEN v ELSE d[x]]

\* The mutant of EffectiveLimit: a given limit is sent as it is.
EffectiveLimitUnclamped(limit) == IF limit = NONE THEN FREE_LIMIT ELSE Val(limit)

\* The limit sent: the ceiling when none is given or when the given one is above it.
EffectiveLimit(limit) ==
    IF limit = NONE THEN FREE_LIMIT
    ELSE IF Val(limit) > FREE_LIMIT THEN FREE_LIMIT
    ELSE Val(limit)

LimitClamped(limit) == limit # NONE /\ Val(limit) > FREE_LIMIT

\* The query parameters extract builds, the assignments in source order.
BaseParams(dom, lim) ==
    [url      |-> dom \o T_slash_star,
     output   |-> T_json,
     fl       |-> T_fl,
     limit    |-> lim,
     collapse |-> T_urlkey]

WithDates(p, from_year, to_year) ==
    LET p1 == IF TruthyInt(from_year) THEN SetItem(p, "from", IntToStr(Val(from_year))) ELSE p
    IN  IF TruthyInt(to_year) THEN SetItem(p1, "to", IntToStr(Val(to_year))) ELSE p1

\* The mutant of WithFilters: the pattern filter is assigned last.
WithFiltersPatternLast(p, filter_pattern, status_codes) ==
    LET p1 == IF TruthyText(status_codes)
              THEN SetItem(p, "filter", T_statuscode \o Val(status_codes)) ELSE p
    IN  IF TruthyText(filter_pattern)
        THEN SetItem(p1, "filter", T_original_re \o Val(filter_pattern)) ELSE p1

WithFilters(p, filter_pattern, status_codes) ==
    LET p1 == IF TruthyText(filter_pattern)
              THEN SetItem(p, "filter", T_original_re \o Val(filter_pattern)) ELSE p
    IN  IF TruthyText(status_codes)
        THEN SetItem(p1, "filter", T_statuscode \o Val(status_codes)) ELSE p1

BuildParams(dom, limit, filter_pattern, from_year, to_year, status_codes) ==
    WithFilters(WithDates(BaseParams(dom, EffectiveLimit(limit)), from_year, to_year),
                filter_pattern, status_codes)

\* What extract prints before the request.
ExtractBanner(limit, filter_pattern, from_year, to_year, status_codes) ==
    <<"extracting">>
    \o (IF LimitClamped(limit) THEN <<"limit_warning">> ELSE << >>)
    \o <<"fetching">>
    \o (IF TruthyInt(from_year) \/ TruthyInt(to_year) THEN <<"date_range">> ELSE << >>)
    \o (IF TruthyText(filter_pattern) THEN <<"filter">> ELSE << >>)
    \o (IF TruthyText(status_codes) THEN <<"status_codes">> ELSE << >>)

(***************************************************************************)
(* What the request can do.  requests.get raises ConnectionError or        *)
(* Timeout, raise_for_status raises HTTPError on an error status, and      *)
(* response.json() raises requests' JSONDecodeError on a body that is not  *)
(* JSON; otherwise the body is a JSON array of rows, the first of them the *)
(* header.  A row is an array of two to four texts: url, timestamp and,    *)
(* when present, status code and mime type.                                *)
(***************************************************************************)
\* requests follows at most this many redirects in one call, and raises
\* TooManyRedirects at the next one.
RedirectLimit == 30

\* What one call of requests.get meets: redirects is the number of redirect
\* answers requests followed, each with a further GET, before the call ended.
Raises(e) ==
    [raises |-> Some(e), data |-> << >>,
     redirects |-> IF e = "TooManyRedirects" THEN RedirectLimit ELSE 0]
Returns(data) == [raises |-> NONE, data |-> data, redirects |-> 0]
\* the same end of the call after n redirects
Redirected(outcome, n) == [outcome EXCEPT !.redirects = n]

\* requests.exceptions: RequestException and the classes derived from it.
RequestExceptions ==
    {"RequestException", "InvalidJSONError", "JSONDecodeError", "HTTPError",
     "ConnectionError", "ProxyError", "SSLError", "Timeout", "ConnectTimeout",
     "ReadTimeout", "URLRequired", "TooManyRedirects", "MissingSchema",
     "InvalidSchema", "InvalidURL", "InvalidHeader", "InvalidProxyURL",
     "ChunkedEncodingError", "ContentDecodingError", "StreamConsumedError",
     "RetryError", "UnrewindableBodyError"}

\* The mutant of IsRequestException: the JSON error is a plain ValueError.
IsRequestExceptionWithoutJson(e) == e \in RequestExceptions \ {"JSONDecodeError"}

\* `except requests.exceptions.RequestException` catches every class derived from it.
IsRequestException(e) == e \in RequestExceptions

\* The mutant of HasDataRows: a response of the header alone counts.
HasRows(data) == data # << >> /\ Len(data) > 0

\* `data and len(data) > 1`
HasDataRows(data) == data # << >> /\ Len(data) > 1

Returned(call, value) == [call |-> call, value |-> value]
NoReturn == [call |-> "none", value |-> NONE]

ReturnedTrue(r) == r.call = "extract" /\ r.value = TRUE
ReturnedFalse(r) == r.call = "extract" /\ r.value = FALSE

\* The mutant of Attempts: a failed request is sent again.
AttemptsWithRetry(outcome) ==
    IF outcome.raises # NONE THEN 2 * (1 + outcome.redirects) ELSE 1 + outcome.redirects

\* requests.get is called once in the try block, whatever it meets; the call
\* sends one GET and one more for every redirect it follows.
Attempts(outcome) == 1 + outcome.redirects

\* The mutant of extract: the rows are stored before they are looked at, so
\* that a response without data rows empties the held rows.
extract_storing_first(limit, filter_pattern, from_year, to_year, status_codes, outcome) ==
    LET banner == ExtractBanner(limit, filter_pattern, from_year, to_year, status_codes) IN
    /\ params' = Some(BuildParams(domain, limit, filter_pattern, from_year, to_year, status_codes))
    /\ gets' = gets + 1 + outcome.redirects
    /\ response' = Some(outcome)
    /\ IF outcome.raises # NONE
       THEN /\ stdout' = stdout \o banner \o <<"error">>
            /\ result' = Returned("extract", FALSE)
            /\ raised' = NONE
            /\ UNCHANGED <<urls, stats>>
       ELSE IF outcome.data # << >> /\ Len(outcome.data) > 1
            THEN /\ urls' = Tail(outcome.data)
                 /\ stats' = calculate_stats(Tail(outcome.data), stats)
                 /\ stdout' = stdout \o banner \o <<"complete">>
                 /\ result' = Returned("extract", TRUE)
                 /\ raised' = NONE
            ELSE /\ urls' = << >>
                 /\ stdout' = stdout \o banner \o <<"no_urls">>
                 /\ result' = Returned("extract", FALSE)
                 /\ raised' = NONE
                 /\ UNCHANGED stats
    /\ UNCHANGED <<domain, file>>

\* extract(limit, filter_pattern, from_year, to_year, status_codes) meeting `outcome`
extract(limit, filter_pattern, from_year, to_year, status_codes, outcome) ==
    LET banner == ExtractBanner(limit, filter_pattern, from_year, to_year, status_codes) IN
    /\ params' = Some(BuildParams(domain, limit, filter_pattern, from_year, to_year, status_codes))
    /\ gets' = gets + Attempts(outcome)
    /\ response' = Some(outcome)
    /\ IF outcome.raises # NONE
       THEN IF IsRequestException(Val(outcome.raises))
            THEN /\ stdout' = stdout \o banner \o <<"error">>
                 /\ result' = Returned("extract", FALSE)
                 /\ raised' = NONE
                 /\ UNCHANGED <<urls, stats>>
            ELSE /\ stdout' = stdout \o banner
                 /\ result' = NoReturn
                 /\ raised' = outcome.raises
                 /\ UNCHANGED <<urls, stats>>
       ELSE IF HasDataRows(outcome.data)
            THEN /\ urls' = Tail(outcome.data)
                 /\ stats' = calculate_stats(Tail(outcome.data), stats)
                 /\ stdout' = stdout \o banner \o <<"complete">>
                 /\ result' = Returned("extract", TRUE)
                 /\ raised' = NONE
            ELSE /\ stdout' = stdout \o banner \o <<"no_urls">>
                 /\ result' = Returned("extract", FALSE)
                 /\ raised' = NONE
                 /\ UNCHANGED <<urls, stats>>
    /\ UNCHANGED <<domain, file>>

\* print_stats()
PrintedSummary(st) ==
    <<"summary">>
    \o (IF st.total >= FREE_LIMIT THEN <<"limit_reached">> ELSE << >>)
    \o (IF DOMAIN st.by_type # {} THEN <<"by_type">> ELSE << >>)
    \o (IF DOMAIN st.by_status # {} THEN <<"by_status">> ELSE << >>)

print_stats ==
    /\ stdout' = stdout \o PrintedSummary(stats)
    /\ result' = Returned("print_stats", NONE)
    /\ raised' = NONE
    /\ UNCHANGED <<domain, urls, stats, params, gets, response, file>>

(***************************************************************************)
(* The exporters.  A written file is a text; the csv writer (default       *)
(* dialect: comma, double quote, minimal quoting, \r\n) and the json       *)
(* encoder (indent=2, ensure_ascii) are computed character by character.   *)
(***************************************************************************)
CRLF == <<"\r", "\n">>
NL == <<"\n">>
DQ == "\""

RECURSIVE Join(_, _)
Join(ss, sep) ==
    IF ss = << >> THEN << >>
    ELSE IF Len(ss) = 1 THEN ss[1]
    ELSE ss[1] \o sep \o Join(Tail(ss), sep)

\* csv.writer: a field is quoted when it holds the delimiter, the quote
\* character or a line-terminator character; quotes inside are doubled.
CsvNeedsQuote(f) == \E i \in 1..Len(f) : f[i] \in {",", DQ, "\r", "\n"}

CsvEscape(f) == Concat([i \in 1..Len(f) |-> IF f[i] = DQ THEN <<DQ, DQ>> ELSE <<f[i]>>])

CsvField(f) == IF CsvNeedsQuote(f) THEN <<DQ>> \o CsvEscape(f) \o <<DQ>> ELSE f

\* writer.writerow(row); a row of one empty field is written as ""
CsvRow(row) ==
    (IF row = << << >> >> THEN <<DQ, DQ>>
     ELSE Join([i \in 1..Len(row) |-> CsvField(row[i])], <<",">>))
    \o CRLF

CsvHeader == <<T_url, T_timestamp, T_status_code, T_mime_type>>

\* The text export_csv writes.
CsvText(rows) == CsvRow(CsvHeader) \o Concat([i \in 1..Len(rows) |-> CsvRow(rows[i])])

\* JSON values: the dict export_json builds, keys in insertion order.
JStr(s) == [t |-> "str", v |-> s]
JNum(n) == [t |-> "num", v |-> n]
JNull == [t |-> "null", v |-> 0]
JArr(items) == [t |-> "arr", v |-> items]
JObj(pairs) == [t |-> "obj", v |-> pairs]

HexDigits == <<"0","1","2","3","4","5","6","7","8","9","a","b","c","d","e","f">>

\* '\\u{0:04x}'.format(n) for a code below 256
JsonUnicodeEscape(n) ==
    <<"\\", "u", "0", "0", HexDigits[(n \div 16) + 1], HexDigits[(n % 16) + 1]>>

\* json's string encoding of one character (ASCII, ensure_ascii): the short
\* escapes, \u00XX for the other characters outside space..~
JsonEscapeChar(c) ==
    IF c = DQ THEN <<"\\", DQ>>
    ELSE IF c = "\\" THEN <<"\\", "\\">>
    ELSE IF c = "\n" THEN <<"\\", "n">>
    ELSE IF c = "\r" THEN <<"\\", "r">>
    ELSE IF c = "\t" THEN <<"\\", "t">>
    ELSE IF c = "\f" THEN <<"\\", "f">>
    ELSE IF c = ControlChars[8] THEN <<"\\", "b">>
    ELSE IF \E k \in 1..31 : ControlChars[k] = c
         THEN JsonUnicodeEscape(CHOOSE k \in 1..31 : ControlChars[k] = c)
    ELSE IF c = DEL THEN JsonUnicodeEscape(127)
    ELSE <<c>>

JsonString(s) == <<DQ>> \o Concat([i \in 1..Len(s) |-> JsonEscapeChar(s[i])]) \o <<DQ>>

Spaces(n) == [i \in 1..n |-> " "]

\* json.dump(value, f, indent=2) at nesting level `level`
RECURSIVE JsonDump(_, _)
JsonDump(val, level) ==
    IF val.t = "str" THEN JsonString(val.v)
    ELSE IF val.t = "num" THEN IntToStr(val.v)
    ELSE IF val.t = "null" THEN T_null
    ELSE IF val.t = "arr" THEN
        IF val.v = << >> THEN <<"[", "]">>
        ELSE <<"[">> \o NL
             \o Join([i \in 1..Len(val.v) |->
                        Spaces(2 * (level + 1)) \o JsonDump(val.v[i], level + 1)],
                     <<",">> \o NL)
             \o NL \o Spaces(2 * level) \o <<"]">>
    ELSE
        IF val.v = << >> THEN <<"{", "}">>
        ELSE <<"{">> \o NL
             \o Join([i \in 1..Len(val.v) |->
                        Spaces(2 * (level + 1)) \o JsonString(val.v[i][1]) \o <<":", " ">>
                        \o JsonDump(val.v[i][2], level + 1)],
                     <<",">> \o NL)
             \o NL \o Spaces(2 * level) \o <<"}">>

\* The mutant of JsonUrlEntry: the status code is kept only when a mime type follows.
JsonUrlEntryShifted(item) ==
    JObj(<< <<T_url, JStr(item[1])>>,
            <<T_timestamp, JStr(item[2])>>,
            <<T_status_code, IF Len(item) > 3 THEN JStr(item[3]) ELSE JNull>>,
            <<T_mime_type, IF Len(item) > 3 THEN JStr(item[4]) ELSE JNull>> >>)

\* One entry of the 'urls' list of export_json.
JsonUrlEntry(item) ==
    JObj(<< <<T_url, JStr(item[1])>>,
            <<T_timestamp, JStr(item[2])>>,
            <<T_status_code, IF Len(item) > 2 THEN JStr(item[3]) ELSE JNull>>,
            <<T_mime_type, IF Len(item) > 3 THEN JStr(item[4]) ELSE JNull>> >>)

\* The dict export_json dumps; `now` is datetime.now().isoformat().
JsonData(dom, st, rows, now) ==
    JObj(<< <<T_domain, JStr(dom)>>,
            <<T_extracted_at, JStr(now)>>,
            <<T_stats, JObj(<< <<T_total_urls, JNum(st.total)>>,
                               <<T_unique_urls, JNum(st.unique)>> >>)>>,
            <<T_urls, JArr([i \in 1..Len(rows) |-> JsonUrlEntry(rows[i])])>> >>)

JsonText(dom, st, rows, now) == JsonDump(JsonData(dom, st, rows, now), 0)

\* The text export_txt writes: the url of each row and a newline.
TxtText(rows) == Concat([i \in 1..Len(rows) |-> rows[i][1] \o NL])

\* f"{self.domain.replace('.', '_')}_urls.<ext>" when no filename is given
DefaultName(dom, suffix) == Replace(dom, T_dot, T_underscore) \o suffix

FileName(filename, dom, suffix) ==
    IF filename = NONE THEN DefaultName(dom, suffix) ELSE Val(filename)

\* An exception leaves the exporter; out is what has been printed when it
\* was called.
Raise(e, out) ==
    /\ result' = NoReturn
    /\ raised' = Some(e)
    /\ stdout' = out
    /\ UNCHANGED file

\* The directories open() finds: the root and the working directory in it.
Root == << >>
Cwd == << <<"w","o","r","k">> >>
Dirs == {Root, Cwd}

\* The longest name of a file or directory, and the length a path stays below.
NameMax == 255
PathMax == 4096

\* Walking the directory part of a path, character by character: dir is the
\* directory reached, part the name being read, err the error met.
PathStart(dir) == [dir |-> dir, part |-> << >>, err |-> NONE]

\* the name read so far is complete: stay, go up, or go down into it
PathEnter(st) ==
    IF st.part = << >> \/ st.part = <<".">> THEN [st EXCEPT !.part = << >>]
    ELSE IF Len(st.part) > NameMax THEN [st EXCEPT !.err = Some("OSError")]
    ELSE IF st.part = <<".", ".">>
         THEN [st EXCEPT !.part = << >>,
                         !.dir = IF st.dir = Root THEN Root
                                 ELSE SubSeq(st.dir, 1, Len(st.dir) - 1)]
    ELSE IF Append(st.dir, st.part) \in Dirs
         THEN [st EXCEPT !.part = << >>, !.dir = Append(st.dir, st.part)]
    ELSE [st EXCEPT !.err = Some("FileNotFoundError")]

PathStep(st, c) ==
    IF c = "/" THEN PathEnter(st) ELSE [st EXCEPT !.part = Append(st.part, c)]

\* the characters lo..hi of s, stopping at the first error
RECURSIVE PathFeed(_, _, _, _)
PathFeed(st, s, lo, hi) ==
    IF lo > hi THEN st
    ELSE IF lo = hi THEN PathStep(st, s[lo])
    ELSE LET mid == (lo + hi) \div 2
             left == PathFeed(st, s, lo, mid)
         IN  IF left.err # NONE THEN left ELSE PathFeed(left, s, mid + 1, hi)

\* The error open(filename, 'w') raises, NONE when the file is opened.  The
\* empty name and a name in a directory that does not exist are not found;
\* a name that ends in a slash, or names a directory, is a directory; a path
\* of PathMax characters or a name of more than NameMax is too long (OSError).
OpenError(name) ==
    IF name = << >> THEN Some("FileNotFoundError")
    ELSE IF Len(name) >= PathMax THEN Some("OSError")
    ELSE IF \A i \in 1..Len(name) : name[i] = "/" THEN Some("IsADirectoryError")
    ELSE LET e == CHOOSE i \in 1..Len(name) :
                     name[i] # "/" /\ \A j \in (i + 1)..Len(name) : name[j] = "/"
             b == IF \E i \in 1..e : name[i] = "/"
                  THEN 1 + CHOOSE i \in 1..e :
                              name[i] = "/" /\ \A j \in (i + 1)..e : name[j] # "/"
                  ELSE 1
             last == SubSeq(name, b, e)
             at == PathFeed(PathStart(IF name[1] = "/" THEN Root ELSE Cwd), name, 1, b - 1)
         IN  IF at.err # NONE THEN at.err
             ELSE IF e < Len(name) \/ last = <<".">> \/ last = <<".", ".">>
                     \/ (Len(last) <= NameMax /\ Append(at.dir, last) \in Dirs)
                  THEN Some("IsADirectoryError")
             ELSE IF Len(last) > NameMax THEN Some("OSError")
             ELSE NONE

CanOpen(name) == OpenError(name) = NONE

\* with open(filename, 'w') as f: ...; print(saved); return filename.  When the
\* file cannot be opened the error of open() leaves the exporter: nothing is
\* written, printed or returned.
Written(name, content, tag, out) ==
    IF CanOpen(name)
    THEN /\ file' = Some([name |-> name, content |-> content, saved |-> tag])
         /\ stdout' = out \o <<tag>>
         /\ result' = Returned("export", name)
         /\ raised' = NONE
    ELSE Raise(Val(OpenError(name)), out)

export_csv(filename, out) ==
    Written(FileName(filename, domain, T_urls_csv), CsvText(urls), "csv_saved", out)

\* The dict is built before the file is opened: a row without a timestamp
\* raises IndexError and nothing is written.
export_json(filename, now, out) ==
    IF \E i \in 1..Len(urls) : Len(urls[i]) < 2
    THEN Raise("IndexError", out)
    ELSE Written(FileName(filename, domain, T_urls_json),
                 JsonText(domain, stats, urls, now), "json_saved", out)

export_txt(filename, out) ==
    Written(FileName(filename, domain, T_urls_txt), TxtText(urls), "txt_saved", out)

\* export(format, filename), called at the time now with out printed so far
export(format, filename, now, out) ==
    /\ IF format = "csv" THEN export_csv(filename, out)
       ELSE IF format = "json" THEN export_json(filename, now, out)
       ELSE IF format = "txt" THEN export_txt(filename, out)
       ELSE Raise("ValueError", out)
    /\ UNCHANGED <<domain, urls, stats, params, gets, response>>

(***************************************************************************)
(* Inputs.                                                                 *)
(***************************************************************************)
MaxRows == 2        \* data rows of a response, program flow
MaxOver == 1        \* how far above the ceiling a requested limit goes
MaxRedirects == 1   \* redirects followed in a call that ends otherwise

D_raw == <<"h","t","t","p",":","/","/","a",".","b","/">>
D_padded == <<ControlChars[11],"a",".","b"," ">>
D_blank == <<" ",ControlChars[28]>>
F_pattern == <<".","p","h","p">>
S_codes == <<"2","0","0",",","3","0","1">>
O_name == <<".","/","o",".","o","u","t">>
Now_iso == <<"2","0","2","4","-","0","1","-","0","2","T","0","3",":","0","4",":","0","5">>

Header == << <<"o","r","i","g","i","n","a","l">>, T_timestamp,
             <<"s","t","a","t","u","s","c","o","d","e">>,
             <<"m","i","m","e","t","y","p","e">> >>

U_a == <<"/","a">>
U_png == <<"/","i",".","p","n","g">>
St_200 == <<"2","0","0">>
St_404 == <<"4","0","4">>
M_html == <<"t","e","x","t","/","h","t","m","l">>

\* Two captures of one url, and a row without status and mime.
RowPool == { <<U_a, <<"1">>, St_200, M_html>>,
             <<U_a, <<"2">>, St_404, M_html>>,
             <<U_png, <<"3">> >> }

SeqsUpTo(S, n) == UNION {[1..k -> S] : k \in 0..n}

\* The JSON bodies: the empty array, or the header and up to n rows.
Bodies(S, n) == {<< >>} \cup {<<Header>> \o rows : rows \in SeqsUpTo(S, n)}

Failures == {Raises("ConnectionError"), Raises("Timeout"), Raises("HTTPError"),
             Raises("JSONDecodeError"), Raises("TooManyRedirects"),
             Raises("ChunkedEncodingError")}

\* What the call meets, directly or after some redirects.
Outcomes(S, n) ==
    LET direct == Failures \cup {Returns(b) : b \in Bodies(S, n)}
    IN  direct \cup {Redirected(o, k) : o \in direct \ {Raises("TooManyRedirects")},
                                       k \in 1..MaxRedirects}

Clock == {Now_iso}

NoArgs == [domain |-> << >>, format |-> "csv", output |-> NONE, filter |-> NONE,
           from_year |-> NONE, to_year |-> NONE, status |-> NONE, limit |-> NONE]

\* The command lines main is run with.
CliArgs ==
    [domain : {D_raw}, format : {"csv", "json", "txt"}, output : {NONE, Some(O_name), Some(<< >>)},
     filter : {NONE, Some(F_pattern)}, from_year : {NONE, Some(2020)},
     to_year : {NONE, Some(2023)}, status : {NONE, Some(S_codes)},
     limit : {NONE, Some(1), Some(FREE_LIMIT + MaxOver)}]

(***************************************************************************)
(* The entry points.                                                       *)
(***************************************************************************)
construct(d) ==
    /\ domain' = NormalizeDomain(d)
    /\ urls' = << >>
    /\ stats' = InitStats

\* main: parser.parse_args() exits on --help, after the help text is printed,
\* and on a bad command line, whose message goes to stderr; otherwise the
\* banner is printed.
MainParseArgs ==
    /\ mode = "cli" /\ pc = "start"
    /\ \/ /\ pc' = "exit"
          /\ stdout' = stdout \o <<"help">>
          /\ UNCHANGED args
       \/ /\ pc' = "exit"
          /\ UNCHANGED <<args, stdout>>
       \/ \E a \in CliArgs :
          /\ args' = a
          /\ stdout' = stdout \o <<"banner">>
          /\ pc' = "parsed"
    /\ UNCHANGED <<mode, domain, urls, stats, params, gets, response, result, raised, file>>

\* extractor = WaybackExtractor(args.domain)
MainConstruct ==
    /\ mode = "cli" /\ pc = "parsed"
    /\ construct(args.domain)
    /\ pc' = "constructed"
    /\ UNCHANGED <<mode, args, params, gets, response, result, raised, stdout, file>>

\* success = extractor.extract(limit=args.limit, ...)
MainExtract ==
    /\ mode = "cli" /\ pc = "constructed"
    /\ \E o \in Outcomes(RowPool, MaxRows) :
          extract(args.limit, args.filter, args.from_year, args.to_year, args.status, o)
    /\ pc' = IF raised' # NONE THEN "crashed" ELSE "extracted"
    /\ UNCHANGED <<mode, args>>

\* if success: extractor.print_stats()
MainPrintStats ==
    /\ mode = "cli" /\ pc = "extracted"
    /\ ReturnedTrue(result)
    /\ print_stats
    /\ pc' = "printed"
    /\ UNCHANGED <<mode, args>>

\* print("Exporting..."); extractor.export(format=args.format, filename=args.output)
MainExport ==
    /\ mode = "cli" /\ pc = "printed"
    /\ \E now \in Clock :
          export(args.format, args.output, now, stdout \o <<"exporting">>)
    /\ pc' = IF raised' # NONE THEN "crashed" ELSE "exported"
    /\ UNCHANGED <<mode, args>>

\* the closing messages of main, after the next-steps text when the run succeeded
MainFinish ==
    /\ mode = "cli"
    /\ \/ pc = "exported" /\ stdout' = stdout \o <<"next_steps", "closing">>
       \/ pc = "extracted" /\ ReturnedFalse(result)
                           /\ stdout' = stdout \o <<"closing">>
    /\ pc' = "done"
    /\ UNCHANGED <<mode, args, domain, urls, stats, params, gets, response, result, raised, file>>

InteractiveDomains == {D_padded, D_blank}
FormatChoices == {<< >>, <<"1">>, <<"2">>, <<"3">>, <<"9">>}

\* format_map.get(format_choice, 'csv') after `strip() or "1"`
FormatOf(choice) ==
    LET c == IF Strip(choice, Whitespace) = << >> THEN <<"1">> ELSE Strip(choice, Whitespace)
    IN  IF c = <<"1">> THEN "csv"
        ELSE IF c = <<"2">> THEN "json"
        ELSE IF c = <<"3">> THEN "txt"
        ELSE "csv"

\* interactive: the banner and the domain prompt
\* input() raises EOFError when the standard input has ended
EndOfInput ==
    /\ raised' = Some("EOFError")
    /\ pc' = "crashed"

AskDomain ==
    /\ mode = "interactive" /\ pc = "start"
    /\ \/ \E d \in InteractiveDomains :
             /\ args' = [args EXCEPT !.domain = Strip(d, Whitespace)]
             /\ pc' = IF Strip(d, Whitespace) # << >> THEN "asked" ELSE "skipped"
             /\ UNCHANGED raised
       \/ EndOfInput /\ UNCHANGED args
    /\ stdout' = stdout \o <<"banner">>
    /\ UNCHANGED <<mode, domain, urls, stats, params, gets, response, result, file>>

\* interactive: the format prompt
AskFormat ==
    /\ mode = "interactive" /\ pc = "asked"
    /\ \/ /\ \E c \in FormatChoices : args' = [args EXCEPT !.format = FormatOf(c)]
          /\ pc' = "parsed"
          /\ UNCHANGED raised
       \/ EndOfInput /\ UNCHANGED args
    /\ stdout' = stdout \o <<"formats">>
    /\ UNCHANGED <<mode, domain, urls, stats, params, gets, response, result, file>>

\* extractor = WaybackExtractor(domain)
InteractiveConstruct ==
    /\ mode = "interactive" /\ pc = "parsed"
    /\ construct(args.domain)
    /\ pc' = "constructed"
    /\ UNCHANGED <<mode, args, params, gets, response, result, raised, stdout, file>>

\* if extractor.extract():
InteractiveExtract ==
    /\ mode = "interactive" /\ pc = "constructed"
    /\ \E o \in Outcomes(RowPool, MaxRows) : extract(NONE, NONE, NONE, NONE, NONE, o)
    /\ pc' = IF raised' # NONE THEN "crashed" ELSE "extracted"
    /\ UNCHANGED <<mode, args>>

InteractivePrintStats ==
    /\ mode = "interactive" /\ pc = "extracted"
    /\ ReturnedTrue(result)
    /\ print_stats
    /\ pc' = "printed"
    /\ UNCHANGED <<mode, args>>

\* extractor.export(format=output_format)
InteractiveExport ==
    /\ mode = "interactive" /\ pc = "printed"
    /\ \E now \in Clock : export(args.format, NONE, now, stdout)
    /\ pc' = IF raised' # NONE THEN "crashed" ELSE "exported"
    /\ UNCHANGED <<mode, args>>

\* "Done!" after an export, then input("Press Enter to exit...")
InteractiveFinish ==
    /\ mode = "interactive"
    /\ \/ pc = "exported" /\ stdout' = stdout \o <<"done", "press_enter">>
       \/ pc = "extracted" /\ ReturnedFalse(result)
                           /\ stdout' = stdout \o <<"press_enter">>
       \/ pc = "skipped" /\ stdout' = stdout \o <<"press_enter">>
    /\ \/ pc' = "done" /\ UNCHANGED raised
       \/ EndOfInput
    /\ UNCHANGED <<mode, args, domain, urls, stats, params, gets, response, result, file>>

\* A process started with arguments runs main, one started without runs the prompts.
Init ==
    /\ mode \in {"cli", "interactive"}
    /\ pc = "start"
    /\ args = NoArgs
    /\ domain = << >>
    /\ urls = << >>
    /\ stats = InitStats
    /\ params = NONE
    /\ gets = 0
    /\ response = NONE
    /\ result = NoReturn
    /\ raised = NONE
    /\ stdout = << >>
    /\ file = NONE

Next ==
    \/ MainParseArgs
    \/ MainConstruct
    \/ MainExtract
    \/ MainPrintStats
    \/ MainExport
    \/ MainFinish
    \/ AskDomain
    \/ AskFormat
    \/ InteractiveConstruct
    \/ InteractiveExtract
    \/ InteractivePrintStats
    \/ InteractiveExport
    \/ InteractiveFinish

Spec == Init /\ [][Next]_vars

(***************************************************************************)
(* Readers of the written files: csv.reader (default dialect), json.load   *)
(* and reading a text file line by line.  They are the second half of the  *)
(* export round trip.                                                      *)
(***************************************************************************)
\* csv.reader, one character at a time.  The reader's state q holds st
\* ("start_record", "start_field", "in_field", "in_quoted", "quote_in_quoted",
\* "after_cr"), the field fld and the record row being read, and the records
\* rows read so far.
CsvStart == [st |-> "start_record", fld |-> << >>, row |-> << >>, rows |-> << >>]

CsvEndRecord(q, st) ==
    [st |-> st, fld |-> << >>, row |-> << >>,
     rows |-> Append(q.rows, IF q.st \in {"start_record", "after_cr"}
                             THEN << >> ELSE Append(q.row, q.fld))]

CsvStep(q, c) ==
    IF q.st = "in_quoted"
    THEN IF c = DQ THEN [q EXCEPT !.st = "quote_in_quoted"]
         ELSE [q EXCEPT !.fld = Append(@, c)]
    ELSE IF q.st = "quote_in_quoted" /\ c = DQ
    THEN [q EXCEPT !.st = "in_quoted", !.fld = Append(@, c)]
    ELSE IF q.st = "after_cr" /\ c = "\n"       \* \r\n ends one line
    THEN [q EXCEPT !.st = "start_record"]
    ELSE IF c = "\r" THEN CsvEndRecord(q, "after_cr")
    ELSE IF c = "\n" THEN CsvEndRecord(q, "start_record")
    ELSE IF c = ","
    THEN [q EXCEPT !.st = "start_field", !.fld = << >>, !.row = Append(@, q.fld)]
    ELSE IF c = DQ /\ q.st \in {"start_record", "after_cr", "start_field"}
    THEN [q EXCEPT !.st = "in_quoted"]
    ELSE [q EXCEPT !.st = "in_field", !.fld = Append(@, c)]

\* The reader's state after the characters lo..hi of s, from state q (the
\* range is halved so that a long text does not need a deep evaluation).
RECURSIVE CsvFeed(_, _, _, _)
CsvFeed(s, lo, hi, q) ==
    IF lo > hi THEN q
    ELSE IF lo = hi THEN CsvStep(q, s[lo])
    ELSE LET mid == (lo + hi) \div 2
             left == CsvFeed(s, lo, mid, q)
         IN  \* the state after the left half is computed before it is passed on
             IF left.st = "in_quoted" THEN CsvFeed(s, mid + 1, hi, left)
             ELSE CsvFeed(s, mid + 1, hi, left)

\* list(csv.reader(f)): a record still open at the end of the text is closed
CsvRead(s) ==
    LET q == CsvFeed(s, 1, Len(s), CsvStart)
    IN  IF q.st \in {"start_record", "after_cr"} THEN q.rows
        ELSE Append(q.rows, Append(q.row, q.fld))

\* The lines of a text file, without their newline: the k-th line ends at the
\* k-th newline, and text after the last newline is a line of its own.
LineEnds(s) == {i \in 1..Len(s) : s[i] = "\n"}

KthEnd(s, k) == CHOOSE i \in LineEnds(s) : Cardinality({j \in LineEnds(s) : j < i}) = k - 1

TxtRead(s) ==
    LET n == Cardinality(LineEnds(s))
        last == IF n = 0 THEN 0 ELSE KthEnd(s, n)
        whole == [k \in 1..n |->
                    SubSeq(s, (IF k = 1 THEN 0 ELSE KthEnd(s, k - 1)) + 1, KthEnd(s, k) - 1)]
    IN  IF last < Len(s) THEN Append(whole, SubSeq(s, last + 1, Len(s))) ELSE whole

\* json.load: a recursive-descent reader returning [val, next]; the value is
\* tagged as the encoder's are, an unreadable text gives JBad.
JBad == [t |-> "bad", v |-> 0]

RECURSIVE SkipWs(_, _)
JsonWs == {" ", "\n", "\t", "\r"}
SkipWs(s, i) == IF i <= Len(s) /\ s[i] \in JsonWs THEN SkipWs(s, i + 1) ELSE i

IsDigit(c) == \E k \in 1..10 : Digits[k] = c
DigitVal(c) == (CHOOSE k \in 1..10 : Digits[k] = c) - 1

JsonUnescape(c) ==
    IF c = "n" THEN "\n" ELSE IF c = "r" THEN "\r" ELSE IF c = "t" THEN "\t"
    ELSE IF c = "f" THEN "\f" ELSE IF c = "b" THEN ControlChars[8] ELSE c

HexVal(c) == (CHOOSE k \in 1..16 : HexDigits[k] = c) - 1
\* the character of a \uXXXX escape (codes 1..127)
CharOf(n) == IF n \in 1..31 THEN ControlChars[n] ELSE IF n = 127 THEN DEL ELSE "?"

\* the characters of a string from position i (after the opening quote)
RECURSIVE ReadString(_, _, _)
ReadString(s, i, acc) ==
    IF i > Len(s) THEN [val |-> JBad, next |-> i]
    ELSE IF s[i] = DQ THEN [val |-> JStr(acc), next |-> i + 1]
    ELSE IF s[i] = "\\"
         THEN IF i + 1 > Len(s) THEN [val |-> JBad, next |-> i]
              ELSE IF s[i + 1] = "u"
              THEN IF i + 5 > Len(s) THEN [val |-> JBad, next |-> i]
                   ELSE ReadString(s, i + 6,
                           Append(acc, CharOf(16 * HexVal(s[i + 4]) + HexVal(s[i + 5]))))
              ELSE ReadString(s, i + 2, Append(acc, JsonUnescape(s[i + 1])))
    ELSE ReadString(s, i + 1, Append(acc, s[i]))

RECURSIVE ReadNumber(_, _, _)
ReadNumber(s, i, acc) ==
    IF i <= Len(s) /\ IsDigit(s[i]) THEN ReadNumber(s, i + 1, 10 * acc + DigitVal(s[i]))
    ELSE [val |-> JNum(acc), next |-> i]

RECURSIVE ReadValue(_, _)
RECURSIVE ReadItems(_, _, _)
RECURSIVE ReadMembers(_, _, _)

ReadValue(s, i0) ==
    LET i == SkipWs(s, i0) IN
    IF i > Len(s) THEN [val |-> JBad, next |-> i]
    ELSE IF s[i] = DQ THEN ReadString(s, i + 1, << >>)
    ELSE IF IsDigit(s[i]) THEN ReadNumber(s, i, 0)
    ELSE IF s[i] = "-" THEN
        LET r == ReadNumber(s, i + 1, 0) IN [val |-> JNum(0 - r.val.v), next |-> r.next]
    ELSE IF i + 3 <= Len(s) /\ SubSeq(s, i, i + 3) = T_null THEN [val |-> JNull, next |-> i + 4]
    ELSE IF s[i] = "[" THEN
        LET j == SkipWs(s, i + 1) IN
        IF j <= Len(s) /\ s[j] = "]" THEN [val |-> JArr(<< >>), next |-> j + 1]
        ELSE ReadItems(s, j, << >>)
    ELSE IF s[i] = "{" THEN
        LET j == SkipWs(s, i + 1) IN
        IF j <= Len(s) /\ s[j] = "}" THEN [val |-> JObj(<< >>), next |-> j + 1]
        ELSE ReadMembers(s, j, << >>)
    ELSE [val |-> JBad, next |-> i]

\* the items of an array from position i, after "[" or ","
ReadItems(s, i, acc) ==
    LET r == ReadValue(s, i)
        j == SkipWs(s, r.next)
    IN  IF r.val.t = "bad" \/ j > Len(s) THEN [val |-> JBad, next |-> j]
        ELSE IF s[j] = "," THEN ReadItems(s, j + 1, Append(acc, r.val))
        ELSE IF s[j] = "]" THEN [val |-> JArr(Append(acc, r.val)), next |-> j + 1]
        ELSE [val |-> JBad, next |-> j]

\* the members of an object from position i, after "{" or ","
ReadMembers(s, i, acc) ==
    LET k == ReadValue(s, i)
        c == SkipWs(s, k.next)
    IN  IF k.val.t # "str" \/ c > Len(s) \/ s[c] # ":" THEN [val |-> JBad, next |-> c]
        ELSE
        LET r == ReadValue(s, c + 1)
            j == SkipWs(s, r.next)
        IN  IF r.val.t = "bad" \/ j > Len(s) THEN [val |-> JBad, next |-> j]
            ELSE IF s[j] = ","
                 THEN ReadMembers(s, j + 1, Append(acc, <<k.val.v, r.val>>))
            ELSE IF s[j] = "}"
                 THEN [val |-> JObj(Append(acc, <<k.val.v, r.val>>)), next |-> j + 1]
            ELSE [val |-> JBad, next |-> j]

JsonLoad(s) ==
    LET r == ReadValue(s, 1) IN
    IF r.val.t # "bad" /\ SkipWs(s, r.next) > Len(s) THEN r.val ELSE JBad

\* obj[key] of a read object (the last member of that name), JBad when absent
Member(obj, key) ==
    IF obj.t = "obj" /\ \E i \in 1..Len(obj.v) : obj.v[i][1] = key
    THEN obj.v[CHOOSE i \in 1..Len(obj.v) :
                 /\ obj.v[i][1] = key
                 /\ \A j \in (i + 1)..Len(obj.v) : obj.v[j][1] # key][2]
    ELSE JBad

(***************************************************************************)
(* One extractor used as an object: the state after construction, and the  *)
(* calls a caller can make on it.                                          *)
(***************************************************************************)
InitObject ==
    /\ mode = "object"
    /\ pc = "object"
    /\ args = NoArgs
    /\ domain = NormalizeDomain(D_raw)
    /\ urls = << >>
    /\ stats = InitStats
    /\ params = NONE
    /\ gets = 0
    /\ response = NONE
    /\ result = NoReturn
    /\ raised = NONE
    /\ stdout = << >>
    /\ file = NONE

(* extract with every kind of argument, once on a fresh extractor. *)
LimitInputs ==
    {NONE} \cup {Some(n) : n \in (-1..1) \cup ((FREE_LIMIT - 1)..(FREE_LIMIT + MaxOver))}

RequestInputs ==
    [domain : {<< >>}, format : {"csv"}, output : {NONE},
     filter : {NONE, Some(<< >>), Some(F_pattern)},
     from_year : {NONE, Some(0), Some(2020)},
     to_year : {NONE, Some(2023)},
     status : {NONE, Some(<< >>), Some(S_codes)},
     limit : LimitInputs]

RequestOutcomes ==
    {Raises("Timeout"), Returns(<< >>), Returns(<<Header, <<U_a, <<"1">>, St_200, M_html>> >>)}

\* args holds the arguments of the call
RequestCall ==
    /\ pc = "object" /\ gets = 0
    /\ \E a \in RequestInputs, o \in RequestOutcomes :
          /\ args' = a
          /\ extract(a.limit, a.filter, a.from_year, a.to_year, a.status, o)
    /\ UNCHANGED <<pc, mode>>

NextRequest == RequestCall

SpecRequest == InitObject /\ [][NextRequest]_vars

(* extract of a one-row response, for every mime type and url shape. *)
M_html_upper == <<"T","E","X","T","/","H","T","M","L">>
M_xhtml == <<"a","p","p","l","i","c","a","t","i","o","n","/","x","h","t","m","l","+","x","m","l">>
M_png == <<"i","m","a","g","e","/","p","n","g">>
M_svg == <<"i","m","a","g","e","/","s","v","g","+","x","m","l">>
M_css == <<"t","e","x","t","/","c","s","s">>
M_js == <<"a","p","p","l","i","c","a","t","i","o","n","/","j","a","v","a","s","c","r","i","p","t">>
M_json == <<"a","p","p","l","i","c","a","t","i","o","n","/","j","s","o","n">>
M_pdf == <<"a","p","p","l","i","c","a","t","i","o","n","/","p","d","f">>
M_mp4 == <<"v","i","d","e","o","/","m","p","4">>
M_revisit == <<"w","a","r","c","/","r","e","v","i","s","i","t">>
M_plain == <<"t","e","x","t","/","p","l","a","i","n">>
M_image_html == <<"i","m","a","g","e","/","h","t","m","l">>
M_css_image == <<"c","s","s","/","i","m","a","g","e">>
M_json_css == <<"j","s","o","n","/","c","s","s">>
M_pdf_json == <<"p","d","f","/","j","s","o","n">>
M_video_pdf == <<"v","i","d","e","o","/","p","d","f">>
U_jpg == <<"/","i",".","j","p","g">>
U_jpeg == <<"/","i",".","j","p","e","g">>
U_gif == <<"/","i",".","g","i","f">>
U_webp == <<"/","i",".","w","e","b","p">>
U_svg == <<"/","i",".","s","v","g">>
U_css == <<"/","s",".","c","s","s">>
U_js == <<"/","s",".","j","s">>
U_pdf == <<"/","d",".","p","d","f">>
U_json == <<"/","d",".","j","s","o","n">>
U_JPG == <<"/","i",".","J","P","G">>
U_pdfq == <<"/","d",".","p","d","f","?","x">>

CatMimes == {M_html, M_html_upper, M_xhtml, M_png, M_svg, M_css, M_js, M_json, M_pdf,
             M_mp4, M_revisit, M_plain, T_unknown, << >>,
             M_image_html, M_css_image, M_json_css, M_pdf_json, M_video_pdf}

CatUrls == {U_a, U_png, U_jpg, U_jpeg, U_gif, U_webp, U_svg, U_css, U_js, U_pdf,
            U_json, U_JPG, U_pdfq}

CatRows == {<<u, <<"1">>, St_200, m>> : u \in CatUrls, m \in CatMimes}
           \cup {<<u, <<"1">>, St_200>> : u \in CatUrls}
           \cup {<<u, <<"1">> >> : u \in CatUrls}

CatCall ==
    /\ pc = "object" /\ gets = 0
    /\ \E row \in CatRows : extract(NONE, NONE, NONE, NONE, NONE, Returns(<<Header, row>>))
    /\ UNCHANGED <<pc, mode, args>>

NextCat == CatCall

SpecCat == InitObject /\ [][NextCat]_vars

(* One fetch and one export, of rows whose texts need quoting or escaping. *)
MaxExportRows == 2
U_comma == <<"/","a",",","b">>
U_quote == <<"/","q","\"","x">>
U_back == <<"/","b","\\","n","\f">>
M_semi == <<"a",";","b"," ","c",ControlChars[8],ControlChars[11],DEL>>

ExportRowPool == { <<U_comma, <<"1">>, St_200, M_html>>,
                   <<U_quote, <<"2">>, St_404, M_semi>>,
                   <<U_back, <<"3">>, << >>, M_json>>,
                   <<U_a, <<"4">>, St_200>>,
                   <<U_a, <<"5">> >> }

ExportFetch ==
    /\ pc = "object" /\ gets = 0 /\ file = NONE
    /\ \E b \in Bodies(ExportRowPool, MaxExportRows) :
          extract(NONE, NONE, NONE, NONE, NONE, Returns(b))
    /\ UNCHANGED <<pc, mode, args>>

ExportWrite ==
    /\ pc = "object" /\ file = NONE
    /\ \E fmt \in {"csv", "json", "txt"}, now \in Clock : export(fmt, NONE, now, stdout)
    /\ UNCHANGED <<pc, mode, args>>

NextExport == ExportFetch \/ ExportWrite

SpecExport == InitObject /\ [][NextExport]_vars

(* Any sequence of calls on one extractor. *)
MaxOut == 4         \* a call is made while fewer messages than this are printed
MaxObjRows == 1     \* data rows of a response

ObjRowPool == { <<U_a, <<"1">>, St_200, M_html>>, <<U_png, <<"3">> >> }

ObjOutcomes ==
    {Raises("Timeout"), Raises("HTTPError"), Redirected(Returns(<<Header>>), 1)}
    \cup {Returns(b) : b \in Bodies(ObjRowPool, MaxObjRows)}

\* a file name one character longer than a name can be
LongName == [i \in 1..(NameMax + 1) |-> "n"]

ObjExtract ==
    /\ pc = "object" /\ Len(stdout) < MaxOut
    /\ \E o \in ObjOutcomes : extract(NONE, NONE, NONE, NONE, NONE, o)
    /\ UNCHANGED <<pc, mode, args>>

ObjPrintStats ==
    /\ pc = "object" /\ Len(stdout) < MaxOut
    /\ print_stats
    /\ UNCHANGED <<pc, mode, args>>

ObjExport ==
    /\ pc = "object" /\ Len(stdout) < MaxOut
    /\ \E fmt \in {"csv", "json", "txt", "xml"}, name \in {NONE, Some(<< >>), Some(<<".">>), Some(LongName)}, now \in Clock :
          export(fmt, name, now, stdout)
    /\ UNCHANGED <<pc, mode, args>>

NextObj == ObjExtract \/ ObjPrintStats \/ ObjExport

SpecObj == InitObject /\ [][NextObj]_vars

(***************************************************************************)
(* The properties.                                                         *)
(***************************************************************************)
RECURSIVE SumOver(_, _)
SumOver(c, S) ==
    IF S = {} THEN 0
    ELSE LET k == CHOOSE x \in S : TRUE IN c[k] + SumOver(c, S \ {k})

\* sum(counter.values())
CounterSum(c) == SumOver(c, DOMAIN c)

\* The last GET met a body with a header row and at least one data row.
GotRows(resp) == resp # NONE /\ Val(resp).raises = NONE /\ Len(Val(resp).data) > 1

DistinctUrls(rows) == {rows[i][1] : i \in 1..Len(rows)}

ExportTags == {"csv_saved", "json_saved", "txt_saved"}
Exported == \E i \in 1..Len(stdout) : stdout[i] \in ExportTags

Occurrences(tag) == Cardinality({i \in 1..Len(stdout) : stdout[i] = tag})

\* C1: after the extract of a fresh extractor has met a response with a header
\* and at least one data row, extract has returned True, total is the number of
\* data rows, unique is the number of distinct urls and at most total, and the
\* by_type counts and the by_status counts each sum to total.
C1_StatsOfFreshExtract ==
    (pc = "extracted" /\ GotRows(response)) =>
        LET rows == Tail(Val(response).data) IN
        /\ ReturnedTrue(result)
        /\ stats.total = Len(rows)
        /\ stats.unique = Cardinality(DistinctUrls(rows))
        /\ stats.unique <= stats.total
        /\ CounterSum(stats.by_type) = stats.total
        /\ CounterSum(stats.by_status) = stats.total

\* Two captures of one url and a row without status code have been counted.
C1_Witness ==
    /\ pc = "extracted" /\ ReturnedTrue(result)
    /\ stats.total >= 2 /\ stats.unique < stats.total
    /\ T_unknown \in DOMAIN stats.by_status

\* C2: in a run of either entry point an export has happened only after
\* extract completed on a response with data rows and after the summary was
\* printed, in that order; and when the fetch failed or brought no data rows
\* there is no export and no output file.
C2_ExportOnlyAfterSuccess ==
    /\ \A i \in 1..Len(stdout) :
          stdout[i] \in ExportTags =>
             /\ GotRows(response)
             /\ \E j \in 1..(i - 1) :
                   /\ stdout[j] = "summary"
                   /\ \E k \in 1..(j - 1) : stdout[k] = "complete"
    /\ (file # NONE) => Exported
    /\ (~GotRows(response)) => (file = NONE /\ ~Exported)

\* A run that has exported, and its file.
C2_Witness == pc = "exported" /\ file # NONE /\ Exported /\ mode = "interactive"

\* C3: whatever made the fetch fail (connection error, timeout, error
\* status, too many redirects, a body that is not JSON, a body without data
\* rows), extract has returned False and no exception has left it: the run
\* goes on to its closing messages, and the only exception it can still end
\* with is the end of input at the closing prompt.
C3_FailureReturnsFalse ==
    (response # NONE /\ ~GotRows(response)) =>
        /\ ReturnedFalse(result)
        /\ pc \in {"extracted", "done", "crashed"}
        /\ (pc = "extracted") => raised = NONE
        /\ (raised # NONE) =>
              /\ raised = Some("EOFError") /\ mode = "interactive" /\ pc = "crashed"
              /\ stdout[Len(stdout)] = "press_enter"

\* extract has met a body that is not JSON and returned False.
C3_Witness ==
    /\ pc = "extracted" /\ ReturnedFalse(result)
    /\ Val(response).raises = Some("JSONDecodeError")

Ended == pc \in {"done", "exit", "crashed"}

\* The runs that end before extract is called: the argument parser exits,
\* the interactive prompt got a blank domain, or the input ended at the
\* domain or the format prompt.
EndsBeforeExtract ==
    \/ pc = "exit"
    \/ mode = "interactive" /\ args.domain = << >>
    \/ mode = "interactive" /\ raised = Some("EOFError")
          /\ stdout[Len(stdout)] \in {"banner", "formats"}

\* C5 as stated: every run that has reached its end has issued exactly one GET.
C5_ExactlyOneGetPerRun == (pc = "done") => gets = 1

\* C5, amended: a run calls extract at most once and extract calls
\* requests.get exactly once, whatever it meets: a failed request is not sent
\* again.  The call sends one GET and one more for each redirect it follows,
\* at most RedirectLimit of them, so a run sends exactly one GET only when
\* nothing redirects; and a run that has ended has made its call unless it
\* ended before extract was called, and then it has sent nothing.
C5_OneCallPerRun ==
    /\ Occurrences("extracting") <= 1
    /\ (response = NONE) <=> (Occurrences("extracting") = 0)
    /\ gets = (IF response = NONE THEN 0 ELSE 1 + Val(response).redirects)
    /\ gets <= 1 + RedirectLimit
    /\ Ended => ((response = NONE) <=> EndsBeforeExtract)

\* A run that exported and ended after its one call, which followed a
\* redirect: two GETs.
C5_Witness ==
    /\ pc = "done" /\ GotRows(response) /\ Exported
    /\ Val(response).redirects = 1 /\ gets = 2

\* C6: the limit sent is the ceiling when no limit is given or the given one
\* is above the ceiling, the given limit otherwise, and never above the ceiling.
C6_LimitClamped ==
    (params # NONE) =>
        LET sent == Val(params).limit IN
        /\ sent = (IF args.limit = NONE THEN FREE_LIMIT
                   ELSE IF Val(args.limit) > FREE_LIMIT THEN FREE_LIMIT
                   ELSE Val(args.limit))
        /\ sent <= FREE_LIMIT

\* A limit above the ceiling was asked for and the ceiling was sent.
C6_Witness ==
    /\ params # NONE /\ args.limit # NONE
    /\ Val(args.limit) > FREE_LIMIT
    /\ Val(params).limit = FREE_LIMIT

\* C7: the request has one filter parameter at most: statuscode:<codes> when
\* status codes are given (with or without a pattern), the original-url regex
\* around the pattern when only a pattern is given, none when neither is given.
\* "Given" is Python's truth of the argument: not None and not empty.
C7_OneFilter ==
    (params # NONE) =>
        LET p == Val(params)
            pattern_given == args.filter # NONE /\ Val(args.filter) # << >>
            status_given == args.status # NONE /\ Val(args.status) # << >>
        IN  /\ status_given =>
                ("filter" \in DOMAIN p /\ p.filter = T_statuscode \o Val(args.status))
            /\ (pattern_given /\ ~status_given) =>
                ("filter" \in DOMAIN p /\ p.filter = T_original_re \o Val(args.filter))
            /\ (~pattern_given /\ ~status_given) => "filter" \notin DOMAIN p

\* Both filters were given and the status filter was sent.
C7_Witness ==
    /\ params # NONE
    /\ args.filter = Some(F_pattern) /\ args.status = Some(S_codes)
    /\ Val(params).filter = T_statuscode \o S_codes

\* The categorization rules in their order: the texts looked for and the label.
MimeRules == << <<{T_html}, "HTML">>, <<{T_image}, "Image">>, <<{T_css}, "CSS">>,
                <<{T_javascript, T_json}, "JavaScript">>, <<{T_pdf}, "PDF">>,
                <<{T_video}, "Video">> >>

UrlRules == << <<{T_dot_jpg, T_dot_jpeg, T_dot_png, T_dot_gif, T_dot_webp, T_dot_svg}, "Image">>,
               <<{T_dot_css}, "CSS">>, <<{T_dot_js}, "JavaScript">>, <<{T_dot_pdf}, "PDF">> >>

MimeHits(mime) ==
    {i \in 1..Len(MimeRules) : \E t \in MimeRules[i][1] : Contains(t, Lower(mime))}

UrlHits(url) == {i \in 1..Len(UrlRules) : \E t \in UrlRules[i][1] : EndsWith(url, t)}

First(S) == CHOOSE i \in S : \A j \in S : i <= j

\* The category of a row by first match: the mime rules, the url rules only
\* when no mime rule matches (a row without mime type matches none), else Other.
RuleCategory(row) ==
    LET mh == IF Len(row) > 3 THEN MimeHits(row[4]) ELSE {}
        uh == UrlHits(row[1])
    IN  IF mh # {} THEN MimeRules[First(mh)][2]
        ELSE IF uh # {} THEN UrlRules[First(uh)][2]
        ELSE "Other"

\* C8: the one row fetched is counted under the category the ordered rules
\* give, and under no other; a mime type of application/json is JavaScript and
\* a row without mime type whose url ends in .pdf is PDF.
C8_CategoryByFirstMatch ==
    GotRows(response) =>
        LET row == Val(response).data[2] IN
        /\ DOMAIN stats.by_type = {RuleCategory(row)}
        /\ stats.by_type[RuleCategory(row)] = 1
        /\ (Len(row) > 3 /\ row[4] = M_json) => DOMAIN stats.by_type = {"JavaScript"}
        /\ (Len(row) <= 3 /\ EndsWith(row[1], T_dot_pdf)) => DOMAIN stats.by_type = {"PDF"}

\* A row of mime type pdf/json, which two rules match, is counted as JavaScript.
C8_Witness ==
    /\ GotRows(response)
    /\ Len(Val(response).data[2]) > 3
    /\ Val(response).data[2][4] = M_pdf_json
    /\ DOMAIN stats.by_type = {"JavaScript"}

\* C9: the held rows and the stats change only in a step in which extract
\* returns True; a step of print_stats, of export (one that raises on an unknown format or on a file it cannot open
\* included) or of an extract that returns False leaves both unchanged.
C9_OnlySuccessfulExtractChanges ==
    [][ /\ (<<urls, stats>>' # <<urls, stats>>) => (ReturnedTrue(result') /\ gets' = gets + 1 + Val(response').redirects)
        /\ (result'.call \in {"print_stats", "export"} \/ raised' # NONE \/ ReturnedFalse(result'))
              => UNCHANGED <<urls, stats>> ]_vars

\* An export of an unknown format has raised on an extractor that holds rows.
C9_Witness ==
    /\ raised = Some("ValueError")
    /\ urls # << >> /\ stats.total = Len(urls)

\* C10: after every call the stats describe the held rows: total is their
\* number, unique the number of their distinct urls, and the by_type and the
\* by_status counts each sum to total.
C10_StatsDescribeHeldRows ==
    /\ stats.total = Len(urls)
    /\ stats.unique = Cardinality(DistinctUrls(urls))
    /\ CounterSum(stats.by_type) = stats.total
    /\ CounterSum(stats.by_status) = stats.total

\* The (url, timestamp, status, mime) tuple of a list of fields, an absent field NONE.
FieldsTuple(fields) == [k \in 1..4 |-> IF k <= Len(fields) THEN Some(fields[k]) ELSE NONE]

TuplesOf(rows) == [i \in 1..Len(rows) |-> FieldsTuple(rows[i])]

\* A member of a read JSON object as an optional text: null is NONE.
JsonField(obj, key) ==
    LET m == Member(obj, key)
    IN  IF m.t = "str" THEN Some(m.v) ELSE IF m.t = "null" THEN NONE ELSE <<m.t, m.t>>

JsonTuples(text) ==
    LET list == Member(JsonLoad(text), T_urls)
    IN  IF list.t # "arr" THEN <<list.t>>
        ELSE [i \in 1..Len(list.v) |->
                <<JsonField(list.v[i], T_url), JsonField(list.v[i], T_timestamp),
                  JsonField(list.v[i], T_status_code), JsonField(list.v[i], T_mime_type)>>]

\* The tuples read back from a written file: the csv records after the header
\* row, the entries of the json 'urls' list, the lines of the text file.
TuplesRead(f) ==
    IF f.saved = "csv_saved" THEN TuplesOf(Tail(CsvRead(f.content)))
    ELSE IF f.saved = "json_saved" THEN JsonTuples(f.content)
    ELSE TuplesOf([i \in 1..Len(TxtRead(f.content)) |-> <<TxtRead(f.content)[i]>>])

\* C4 as stated: in each of the three formats the written file reads back as
\* the tuples of the held rows, in order.
C4_RoundTripAllFormats ==
    (file # NONE) => TuplesRead(Val(file)) = TuplesOf(urls)

\* C4, amended: a csv or json file reads back as the (url, timestamp,
\* status, mime) tuples of the held rows in order (the csv file after its
\* header row); a txt file reads back as their urls alone, in order.
C4_RoundTrip ==
    (file # NONE) =>
        IF Val(file).saved \in {"csv_saved", "json_saved"}
        THEN TuplesRead(Val(file)) = TuplesOf(urls)
        ELSE TxtRead(Val(file).content) = [i \in 1..Len(urls) |-> urls[i][1]]

\* A json file of two rows, one with a quote in its url and one without
\* status code and mime type.
C4_Witness ==
    /\ file # NONE /\ Val(file).saved = "json_saved"
    /\ Len(urls) = 2
    /\ urls[1][1] = U_quote /\ Len(urls[2]) = 2

====
